---- MODULE Spec2Model ----
(***************************************************************************)
(* Display rendering pipeline of the Pimoroni emulator.                    *)
(*                                                                         *)
(* Two threads share a renderer: the application thread, which draws into  *)
(* its framebuffer and calls render(), and the main thread, which runs the *)
(* pygame event loop and calls tick() and refresh_ui().                    *)
(*                                                                         *)
(*   SpecPanel  TFTDisplay and LEDMatrixDisplay: back buffer, front buffer *)
(*              guarded by _render_lock, dirty flag.                       *)
(*   SpecEink   EInkDisplay: render() runs the refresh animation itself.   *)
(*                                                                         *)
(* Surfaces and buffers are objects of a small heap, so that copying and   *)
(* sharing a reference are different things.                               *)
(***************************************************************************)
EXTENDS Integers, Sequences, FiniteSets, TLC

\* ------------------------------------------------------------------ bounds
\* device.display_height of the modelled profile.  The display is one pixel
\* wide: a row of the framebuffer is one cell of the model.
DisplayHeight == 2
\* render() calls the application makes in one run
MaxRenders == 2
\* largest object id of the heap
MaxObj == 5

\* longest time between two samples of the e-ink animation, in quanta
MaxStep == 3

\* ------------------------------------------------------- program constants
\* Time is counted in quanta of 0.05 s.
\* _refresh_duration = 1.5
DefaultDuration == 30
\* phase_invert = 0.15, phase_black = 0.15
PhaseInvert == 3
PhaseBlack == 3
\* set_refresh_speed: max(0.1, min(2.0, duration))
MinDuration == 2
MaxDuration == 40

\* arguments given to set_refresh_speed, in quanta: below, at and above the
\* limits, at and around the phase boundaries, and the default 1.5 s
DurationArgs == {0, 1, 2, 3, 5, 6, 7, 30, 45}

\* pen values the application draws with: 0 (black) and 200
PenValues == {0, 200}

\* no caller
None == "None"
\* the null reference, and the heap slot of no object
NoRef == -1
NoObj == [px |-> <<>>, n |-> -1, of |-> <<>>]
\* the window before anything was drawn
NoFrame == <<>>
\* object id of the application's framebuffer (PicoGraphics._buffer)
BUF == 0

Cells == 1..DisplayHeight
NumCells == DisplayHeight
\* the i-th cell of "for y in range(h): for x in range(w)"
CellAt(i) == i
ObjIds == 0..MaxObj

VARIABLES
    kind,              \* "tft" | "led" | "eink": the renderer create_display built
    heap,              \* object id -> [px: cell -> value; history: n, of] or NoObj
    display_surface,   \* TFT/e-ink _display_surface (object id)
    ready_surface,     \* TFT _ready_surface / LED _ready_buffer (object id or NoRef)
    dirty,             \* _dirty
    render_lock,       \* holder of _render_lock: "free" | "app" | "main"
    last_buffer,       \* _last_buffer (object id or NoRef)
    frame_count,       \* _frame_count
    apc,               \* application thread: position
    ai,                \* application thread: index of the copy loop in render()
    mpc,               \* main thread: position
    mcaller,           \* main thread: what called _draw_window ("tick" | "refresh_ui")
    surface,           \* main thread: local snapshot taken in _draw_window
    window,            \* what the host window shows (cell -> RGB), or NoFrame
    passed,            \* history: buffer content at the latest render() call
    pubs,              \* history: number of completed publishes
    fresh,             \* history: a publish completed since the last take
    tick_fresh,        \* history: a publish completed since the last take by tick()
    skipped,           \* history: frames replaced in the slot before any take
    drawn,             \* history: <<caller, n, of>> of the window drawn last
    now,               \* e-ink: _time.time(), in quanta, counted from the render() call
    refresh_duration,  \* e-ink: _refresh_duration, in quanta
    refresh_animation, \* e-ink: _refresh_animation
    refresh_start_time,\* e-ink: _refresh_start_time
    prev_display_surface, \* e-ink: _prev_display_surface (object id or NoRef)
    new_surface,       \* e-ink render(): local new_surface (object id or NoRef)
    phase_reveal,      \* e-ink render(): local phase_reveal
    elapsed,           \* e-ink render(): local elapsed of the current sample
    reveal_row,        \* e-ink render(): local reveal_row of the current sample
    phase,             \* history: what the last sample displayed
    device,            \* the device profile the emulator was started for
    headless,          \* BaseDisplay.headless
    running,           \* state["running"] of the emulator
    result,            \* what the last get_surface() / screenshot() call returned
    call,              \* the last pixel conversion: its arguments and what it returned
    bobjs,             \* the Button objects made so far, in the order made
    buttons,           \* state["buttons"]: pin -> index in bobjs, 0 for none
    app_uses,          \* pin -> index of the Button object the application reads
    pressed_keys,      \* ButtonManager._pressed_keys
    held,              \* history: the keys (or harness names) now held down
    ipc,               \* start-up position: "boot" | "mocks" | "manager" | "app"
    hop,               \* history: the last button call of the test harness
    gframes,           \* state["frame_count"], counted by PicoGraphics.update()
    hpc,               \* test harness: position
    start_frame,       \* run_frames(): local start_frame
    start_time,        \* run_frames(): local start_time, in units of 0.1 s
    tclock,            \* time.time() of a test run, in units of 0.1 s
    abpc,              \* hello_badge.py: position
    bg_color           \* hello_badge.py: bg_color

vars == <<kind, heap, display_surface, ready_surface, dirty, render_lock,
          last_buffer, frame_count, apc, ai, mpc, mcaller, surface, window,
          passed, pubs, fresh, tick_fresh, skipped, drawn, now,
          refresh_duration, refresh_animation, refresh_start_time,
          prev_display_surface, new_surface, phase_reveal, elapsed, reveal_row,
          phase, device, headless, running, result, call,
          bobjs, buttons, app_uses, pressed_keys, held, ipc, hop, gframes, hpc,
          start_frame, start_time, tclock, abpc, bg_color>>

\* state of the e-ink renderer only
evars == <<now, refresh_duration, refresh_animation, refresh_start_time,
           prev_display_surface, new_surface, phase_reveal, elapsed, reveal_row,
           phase>>

\* the run of the emulator: profile, mode, running flag, last result
\* buttons, test harness and badge application
ivars == <<bobjs, buttons, app_uses, pressed_keys, held, ipc, hop, gframes, hpc,
           start_frame, start_time, tclock, abpc, bg_color>>

lvars == <<device, headless, running, result, call, ivars>>

\* state of the panel renderers only
pvars == <<ready_surface, dirty, render_lock, surface, mcaller, pubs, fresh,
           tick_fresh, skipped>>

\* -------------------------------------------------------------- heap
\* an object: its pixels; history: the render() call it was made in and the
\* buffer content passed to that call
Obj(px, n, of) == [px |-> px, n |-> n, of |-> of]
Blank(v) == [c \in Cells |-> v]

\* ids some reference names
Live(refs) == {BUF} \cup {r \in refs : r # NoRef}
\* smallest id no reference names
NewId(refs) == CHOOSE i \in ObjIds : i \notin Live(refs) /\ \A j \in ObjIds : j < i => j \in Live(refs)
\* drop the objects nothing names any more
Collect(h, refs) == [i \in ObjIds |-> IF i \in Live(refs) THEN h[i] ELSE NoObj]

\* (variant: the frame is handed over by reference, no copy is made)
ShareTarget(src, refs) == src

\* pygame.Surface.copy() / copy.deepcopy(): the id of the copy.  A new object.
CopyTarget(src, refs) == NewId(refs)

\* ------------------------------------------------------ colour translation
\* r, g, b of a packed pen value
UnpackRGB(color) == <<(color \div 65536) % 256, (color \div 256) % 256, color % 256>>
\* LED matrix, device.is_color False (Blinky): brightness = color & 0xFF
LedColor(color) == <<color % 256, color % 256, color % 256>>

\* what a panel window shows of a buffer
Shown(px) == IF kind = "led" THEN [c \in Cells |-> LedColor(px[c])]
                             ELSE [c \in Cells |-> UnpackRGB(px[c])]


\* ---------------------------------------------------------- device profiles
\* the device classes registered in DEVICES
InkyDevices == {"InkyFrame73Device", "InkyFrame58Device", "InkyFrame40Device",
                "InkyImpression73Device", "InkyImpression57Device",
                "InkyImpression40Device", "InkyImpression133Device"}
Devices == {"Tufty2350Device", "Blinky2350Device", "PrestoDevice", "Badger2350Device"}
               \cup InkyDevices

\* the class attribute display_type of a profile
DisplayType(d) ==
    IF d = "Blinky2350Device" THEN "led_matrix"
    ELSE IF d = "Badger2350Device" THEN "eink"
    ELSE IF d \in InkyDevices THEN "eink_color"
    ELSE "tft"

\* the class attribute is_eink of a profile (BaseDevice: False)
IsEink(d) == d = "Badger2350Device" \/ d \in InkyDevices

\* create_display(device): the renderer class built for a profile
CreateDisplay(d) ==
    IF DisplayType(d) = "led_matrix" THEN "led"
    ELSE IF DisplayType(d) = "eink" THEN "eink"
    ELSE "tft"

\* what a call returned: the call, whether it returned an image (get_surface)
\* or True (screenshot), and the image made.  No call has returned yet:
NoResult == [op |-> "none", ok |-> FALSE, img |-> <<>>]

\* ------------------------------------------------------------ construction
\* __init__ and init() of the renderer, windowed mode: the window exists, the
\* TFT/e-ink _display_surface is a fresh (black) pygame.Surface, nothing is
\* published.  The application's framebuffer is object BUF.
InitHeap(k) ==
    [i \in ObjIds |->
        IF i = BUF THEN Obj(Blank(0), 0, <<>>)
        ELSE IF i = 1 /\ k # "led" THEN Obj(Blank(<<0, 0, 0>>), 0, <<>>)
        ELSE NoObj]

InitRenderer(k) ==
    /\ kind = k
    /\ heap = InitHeap(k)
    /\ display_surface = (IF k = "led" THEN NoRef ELSE 1)
    /\ ready_surface = NoRef
    /\ dirty = FALSE
    /\ render_lock = "free"
    /\ last_buffer = NoRef
    /\ frame_count = 0
    /\ apc = "idle"
    /\ ai = 0
    /\ mpc = "idle"
    /\ mcaller = None
    /\ surface = NoRef
    /\ window = NoFrame
    /\ passed = <<>>
    /\ pubs = 0
    /\ fresh = FALSE
    /\ tick_fresh = FALSE
    /\ skipped = {}
    /\ drawn = <<None, 0, <<>> >>
    /\ now = 0
    /\ refresh_duration = DefaultDuration
    /\ refresh_animation = FALSE
    /\ refresh_start_time = 0
    /\ prev_display_surface = NoRef
    /\ new_surface = NoRef
    /\ phase_reveal = 0
    /\ elapsed = 0
    /\ reveal_row = 0
    /\ phase = "idle"

\* main(): state["running"] = True, windowed mode, for profile d
\* the GPIO pins of the button profiles and of inky_frame.button_a..e
AllPins == {0, 1, 2, 3, 4, 6, 7, 8, 9, 11, 12, 13, 14, 15, 22}

\* no harness button call yet
NoHop == [op |-> "none", name |-> "", n |-> 0]

\* pens of hello_badge.py: create_pen(255, 255, 255), (255, 50, 50),
\* (50, 255, 50), (50, 100, 255)
WHITE == 255 * 65536 + 255 * 256 + 255
RED == 255 * 65536 + 50 * 256 + 50
GREEN == 50 * 65536 + 255 * 256 + 50
BLUE == 50 * 65536 + 100 * 256 + 255

\* before install_mocks(): no Button object, no key held, no test under way
InitInput ==
    /\ bobjs = <<>>
    /\ buttons = [p \in AllPins |-> 0]
    /\ app_uses = [p \in AllPins |-> 0]
    /\ pressed_keys = {}
    /\ held = {}
    /\ ipc = "boot"
    /\ hop = NoHop
    /\ gframes = 0
    /\ hpc = "class"
    /\ start_frame = 0
    /\ start_time = 0
    /\ tclock = 0
    /\ abpc = "none"
    /\ bg_color = BLUE

\* no pixel conversion called yet
NoCall == [fn |-> "none", color |-> 0, x |-> 0, y |-> 0, is_color |-> FALSE,
           dither |-> FALSE, palette |-> <<>>, rgb |-> <<>>, out |-> <<>>]

InitRun(d) ==
    /\ device = d
    /\ headless = FALSE
    /\ running = TRUE
    /\ result = NoResult
    /\ call = NoCall
    /\ InitInput

\* the panel profiles of the checked runs: one TFT, one LED matrix
PanelDevices == {"PrestoDevice", "Blinky2350Device"}

InitPanel == \E d \in PanelDevices : InitRenderer(CreateDisplay(d)) /\ InitRun(d)

\* ------------------------------------------------- application thread (panel)
\* the application draws into its framebuffer between render() calls
AppDraw ==
    /\ apc = "idle"
    /\ \E c \in DOMAIN heap[BUF].px, v \in PenValues :
          /\ heap[BUF].px[c] # v
          /\ heap' = [heap EXCEPT ![BUF].px[c] = v]
    /\ UNCHANGED <<evars, kind, display_surface, ready_surface, dirty, render_lock,
                   last_buffer, frame_count, apc, ai, mpc, mcaller, surface,
                   window, passed, pubs, fresh, tick_fresh, skipped, drawn>>
    /\ UNCHANGED lvars

\* range(min(height, self.device.display_height)): the rows render() reads
RowsDrawn(px) == IF Len(px) < DisplayHeight THEN Len(px) ELSE DisplayHeight

\* render(): _last_buffer = buffer; _frame_count += 1
RenderCall ==
    /\ kind \in {"tft", "led"}
    /\ apc = "idle"
    /\ frame_count < MaxRenders
    /\ last_buffer' = BUF
    /\ frame_count' = frame_count + 1
    /\ passed' = heap[BUF].px
    /\ IF kind = "tft" /\ RowsDrawn(heap[BUF].px) > 0
       THEN apc' = "set_at" /\ ai' = 1
       ELSE apc' = "acquire" /\ ai' = 0
    /\ UNCHANGED <<evars, kind, heap, display_surface, ready_surface, dirty,
                   render_lock, mpc, mcaller, surface, window, pubs, fresh, tick_fresh,
                   skipped, drawn>>
    /\ UNCHANGED lvars

\* (variant: single buffering, render() draws on the published surface)
RenderTargetFront == IF ready_surface # NoRef THEN ready_surface ELSE display_surface

\* the surface render() draws on: the back buffer
RenderTarget == display_surface

\* TFT render(): one _display_surface.set_at((x, y), (r, g, b)) of the loop
TftSetAt ==
    /\ apc = "set_at"
    /\ heap' = [heap EXCEPT ![RenderTarget].px[CellAt(ai)] =
                                UnpackRGB(heap[BUF].px[CellAt(ai)])]
    /\ IF ai = RowsDrawn(heap[BUF].px) THEN apc' = "acquire" /\ ai' = 0
                                        ELSE apc' = apc /\ ai' = ai + 1
    /\ UNCHANGED <<evars, kind, display_surface, ready_surface, dirty, render_lock,
                   last_buffer, frame_count, mpc, mcaller, surface, window,
                   passed, pubs, fresh, tick_fresh, skipped, drawn>>
    /\ UNCHANGED lvars

\* render(): "with self._render_lock:" entered
AppAcquire ==
    /\ apc = "acquire"
    /\ render_lock = "free"
    /\ render_lock' = "app"
    /\ apc' = "publish"
    /\ UNCHANGED <<evars, kind, heap, display_surface, ready_surface, dirty,
                   last_buffer, frame_count, ai, mpc, mcaller, surface, window,
                   passed, pubs, fresh, tick_fresh, skipped, drawn>>
    /\ UNCHANGED lvars

\* (variant: a frame not yet picked up is kept, the new one is dropped)
KeepUntaken(old, new) == IF dirty /\ old # NoRef THEN old ELSE new

\* the slot after a publish: the new frame replaces whatever was there
PublishSlot(old, new) == new

\* render(): _ready_surface = _display_surface.copy()  (TFT)
\*           _ready_buffer = copy.deepcopy(buffer)      (LED)
AppPublish ==
    /\ apc = "publish"
    /\ LET src == IF kind = "tft" THEN display_surface ELSE BUF
           t == CopyTarget(src, {display_surface, ready_surface, surface})
           slot == PublishSlot(ready_surface, t)
       IN /\ heap' = Collect([heap EXCEPT ![t] = Obj(heap[src].px, frame_count, passed)],
                             {display_surface, slot, surface})
          /\ ready_surface' = slot
          /\ skipped' = IF fresh /\ ready_surface # NoRef /\ slot # ready_surface
                        THEN skipped \cup {heap[ready_surface].n} ELSE skipped
    /\ pubs' = pubs + 1
    /\ fresh' = TRUE
    /\ tick_fresh' = TRUE
    /\ apc' = "set_dirty"
    /\ UNCHANGED <<evars, kind, display_surface, dirty, render_lock, last_buffer,
                   frame_count, ai, mpc, mcaller, surface, window, passed, drawn>>
    /\ UNCHANGED lvars

\* render(): _dirty = True
AppSetDirty ==
    /\ apc = "set_dirty"
    /\ dirty' = TRUE
    /\ apc' = "release"
    /\ UNCHANGED <<evars, kind, heap, display_surface, ready_surface, render_lock,
                   last_buffer, frame_count, ai, mpc, mcaller, surface, window,
                   passed, pubs, fresh, tick_fresh, skipped, drawn>>
    /\ UNCHANGED lvars

\* render(): the with block is left; _autosave_frame() does nothing without an
\* autosave directory; render() returns
AppRelease ==
    /\ apc = "release"
    /\ render_lock' = "free"
    /\ apc' = "idle"
    /\ UNCHANGED <<evars, kind, heap, display_surface, ready_surface, dirty,
                   last_buffer, frame_count, ai, mpc, mcaller, surface, window,
                   passed, pubs, fresh, tick_fresh, skipped, drawn>>
    /\ UNCHANGED lvars

\* ------------------------------------------------------ main thread (panel)
\* tick(): "if self._dirty:" read without the lock
Tick ==
    /\ running
    /\ kind \in {"tft", "led"}
    /\ mpc = "idle"
    /\ mpc' = IF dirty THEN "tick_clear" ELSE "idle"
    /\ UNCHANGED <<evars, kind, heap, display_surface, ready_surface, dirty,
                   render_lock, last_buffer, frame_count, apc, ai, mcaller,
                   surface, window, passed, pubs, fresh, tick_fresh, skipped, drawn>>
    /\ UNCHANGED lvars

\* tick(): self._dirty = False, then _draw_window() is called
TickClear ==
    /\ mpc = "tick_clear"
    /\ dirty' = FALSE
    /\ mcaller' = "tick"
    /\ mpc' = "dw_acquire"
    /\ UNCHANGED <<evars, kind, heap, display_surface, ready_surface, render_lock,
                   last_buffer, frame_count, apc, ai, surface, window, passed,
                   pubs, fresh, tick_fresh, skipped, drawn>>
    /\ UNCHANGED lvars

\* refresh_ui(): "if not self.headless and self._ready_surface: _draw_window()"
\* (LED: "... and self._ready_buffer": an empty list counts as none)
RefreshUi ==
    /\ running
    /\ kind \in {"tft", "led"}
    /\ mpc = "idle"
    /\ ready_surface # NoRef
    /\ kind = "led" => heap[ready_surface].px # <<>>
    /\ mcaller' = "refresh_ui"
    /\ mpc' = "dw_acquire"
    /\ UNCHANGED <<evars, kind, heap, display_surface, ready_surface, dirty,
                   render_lock, last_buffer, frame_count, apc, ai, surface,
                   window, passed, pubs, fresh, tick_fresh, skipped, drawn>>
    /\ UNCHANGED lvars

\* _draw_window(): "with self._render_lock:" entered
DrawAcquire ==
    /\ mpc = "dw_acquire"
    /\ render_lock = "free"
    /\ render_lock' = "main"
    /\ mpc' = "dw_take"
    /\ UNCHANGED <<evars, kind, heap, display_surface, ready_surface, dirty,
                   last_buffer, frame_count, apc, ai, mcaller, surface, window,
                   passed, pubs, fresh, tick_fresh, skipped, drawn>>
    /\ UNCHANGED lvars

\* _draw_window(): surface = self._ready_surface; the with block is left
DrawTake ==
    /\ mpc = "dw_take"
    /\ surface' = ready_surface
    /\ render_lock' = "free"
    /\ fresh' = FALSE
    /\ tick_fresh' = (IF mcaller = "tick" THEN FALSE ELSE tick_fresh)
    /\ mpc' = "dw_blit"
    /\ UNCHANGED <<evars, kind, heap, display_surface, ready_surface, dirty,
                   last_buffer, frame_count, apc, ai, mcaller, window, passed,
                   pubs, skipped, drawn>>
    /\ UNCHANGED lvars

\* the LED grid background, where no LED is drawn
GridBackground == <<15, 15, 18>>

\* what _draw_window puts on the window for the snapshot it took: the TFT
\* surface; an LED for each row of range(min(height, display_height))
Blit(px) ==
    IF kind = "led"
    THEN [c \in Cells |-> IF c <= RowsDrawn(px) THEN LedColor(px[c]) ELSE GridBackground]
    ELSE px

\* _draw_window(): "if not surface: return", else scale/blit (TFT) or draw
\* the LEDs (LED matrix) from the snapshot, and flip
DrawBlit ==
    /\ mpc = "dw_blit"
    /\ IF surface = NoRef
       THEN UNCHANGED <<window, drawn, heap>>
       ELSE /\ window' = Blit(heap[surface].px)
            /\ drawn' = <<mcaller, heap[surface].n, heap[surface].of>>
            /\ heap' = Collect(heap, {display_surface, ready_surface})
    /\ surface' = NoRef
    /\ mcaller' = None
    /\ mpc' = "idle"
    /\ UNCHANGED <<evars, kind, display_surface, ready_surface, dirty, render_lock,
                   last_buffer, frame_count, apc, ai, passed, pubs, fresh, tick_fresh,
                   skipped>>
    /\ UNCHANGED lvars

NextPanel ==
    \/ AppDraw
    \/ RenderCall
    \/ TftSetAt
    \/ AppAcquire
    \/ AppPublish
    \/ AppSetDirty
    \/ AppRelease
    \/ Tick
    \/ TickClear
    \/ RefreshUi
    \/ DrawAcquire
    \/ DrawTake
    \/ DrawBlit

SpecPanel == InitPanel /\ [][NextPanel]_vars


\* =============================================================== e-ink
\* ------------------------------------------------- e-ink colour translation
InkWhite == <<245, 245, 240>>
InkBlack == <<30, 30, 35>>

\* the renderer of a device with display_type "eink" (Badger 2350):
\* is_color False, two colours, dithering on
EinkIsColor == FALSE
EinkDither == TRUE
EinkPalette == <<<<0, 0, 0>>, <<255, 255, 255>>>>

SqDist(r, g, b, p) == (r - p[1]) * (r - p[1]) + (g - p[2]) * (g - p[2]) + (b - p[3]) * (b - p[3])

\* the palettes of the colour panels: SPECTRA_6_PALETTE, ACEP_7_PALETTE
Spectra6Palette ==
    <<<<0, 0, 0>>, <<255, 255, 255>>, <<0, 128, 0>>, <<0, 0, 255>>, <<255, 0, 0>>,
      <<255, 255, 0>>>>
Acep7Palette == Spectra6Palette \o <<<<255, 128, 0>>>>

\* the same loop with "dist <= best_dist": a later entry at the same distance
\* replaces the best so far
RECURSIVE NearestFromLast(_, _, _, _, _, _)
NearestFromLast(r, g, b, palette, i, best) ==
    IF i > Len(palette) THEN best
    ELSE IF best = <<>> \/ SqDist(r, g, b, palette[i]) <= SqDist(r, g, b, best)
         THEN NearestFromLast(r, g, b, palette, i + 1, palette[i])
         ELSE NearestFromLast(r, g, b, palette, i + 1, best)

\* _find_nearest_color: the loop from palette entry i on, best so far in best;
\* a later entry replaces it only when strictly nearer
RECURSIVE NearestFrom(_, _, _, _, _, _)
NearestFrom(r, g, b, palette, i, best) ==
    IF i > Len(palette) THEN best
    ELSE IF best = <<>> \/ SqDist(r, g, b, palette[i]) < SqDist(r, g, b, best)
         THEN NearestFrom(r, g, b, palette, i + 1, palette[i])
         ELSE NearestFrom(r, g, b, palette, i + 1, best)

\* the nearest colour with ties going to the latest entry
FindNearestColorLast(r, g, b, palette) == NearestFromLast(r, g, b, palette, 1, <<>>)

FindNearestColor(r, g, b, palette) == NearestFrom(r, g, b, palette, 1, <<>>)

\* every value up to 255 read as a pen index
EinkRGBIndexed(color) ==
    IF color > 255 THEN UnpackRGB(color)
    ELSE <<(color * 255) \div 15, (color * 255) \div 15, (color * 255) \div 15>>

\* r, g, b of a raw pixel: packed RGB above 255, pen index up to 15, else gray
EinkRGB(color) ==
    IF color > 255 THEN UnpackRGB(color)
    ELSE IF color <= 15 THEN <<(color * 255) \div 15, (color * 255) \div 15, (color * 255) \div 15>>
    ELSE <<color, color, color>>

\* r << 16 | g << 8 | b, the value of create_pen
PackRGB(r, g, b) == r * 65536 + g * 256 + b

\* the gray levels v for which the double-precision sum 0.299 v + 0.587 v + 0.114 v
\* falls just below v, so that int() gives v - 1
ShortGrays ==
    {1, 2, 4, 8, 11, 13, 16, 22, 26, 27, 32, 39, 44, 51, 52, 54, 57, 59, 61, 64, 78,
     81, 88, 91, 95, 101, 102, 104, 108, 114, 115, 118, 122, 127, 128, 143, 149, 156,
     157, 162, 169, 175, 176, 182, 183, 190, 195, 202, 203, 204, 208, 209, 216, 223,
     225, 228, 230, 235, 236, 239, 241, 244, 249, 251, 254}

\* the colours, among those the model converts, whose weighted sum is a whole
\* number that the double-precision sum falls just below
FloatShort ==
    {<<v, v, v>> : v \in ShortGrays}
        \cup {<<31, 203, 5>>, <<12, 110, 253>>, <<11, 251, 91>>}

\* int(0.299 r + 0.587 g + 0.114 b) as the double-precision evaluation gives it:
\* the floor of the exact sum, one less for the colours of FloatShort
Luminance(rgb) ==
    (299 * rgb[1] + 587 * rgb[2] + 114 * rgb[3]) \div 1000
        - (IF rgb \in FloatShort THEN 1 ELSE 0)

\* 128 + ((x % 2) * 32 - 16) + ((y % 2) * 32 - 16), x and y counted from 0
DitherThreshold(x, y) == 128 + ((x % 2) * 32 - 16) + ((y % 2) * 32 - 16)

\* _convert_buffer: the colour set at (x, y) for a raw pixel
ConvertPixel(color, x, y, is_color, dither, palette) ==
    LET rgb == EinkRGB(color)
    IN IF is_color
       THEN LET pc == FindNearestColor(rgb[1], rgb[2], rgb[3], palette)
            IN <<IF pc[1] > 10 THEN pc[1] - 10 ELSE pc[1],
                 IF pc[2] > 10 THEN pc[2] - 10 ELSE pc[2],
                 IF pc[3] > 5 THEN pc[3] - 5 ELSE pc[3]>>
       ELSE IF Luminance(rgb) > (IF dither THEN DitherThreshold(x, y) ELSE 128)
            THEN InkWhite ELSE InkBlack

\* the converted frame of a buffer (cell c is x = 0, y = c - 1)
Converted(px) == [c \in Cells |-> ConvertPixel(px[c], 0, c - 1, EinkIsColor, EinkDither, EinkPalette)]

\* fill((255, 255, 255)) then blit with BLEND_RGB_SUB: 255 - channel
Inverted(px) == [c \in Cells |-> <<255 - px[c][1], 255 - px[c][2], 255 - px[c][3]>>]

\* ------------------------------------------------------- e-ink construction
InitEink == InitRenderer(CreateDisplay("Badger2350Device")) /\ InitRun("Badger2350Device")

\* max(0.1, min(2.0, duration))
\* min(2.0, duration) alone: no lower limit
ClampDurationAbove(d) == IF d < MaxDuration THEN d ELSE MaxDuration

ClampDuration(d) ==
    LET lo == IF d < MaxDuration THEN d ELSE MaxDuration
    IN IF lo > MinDuration THEN lo ELSE MinDuration

\* set_refresh_speed(duration), called between render() calls
EinkSetRefreshSpeed ==
    /\ kind = "eink"
    /\ apc = "idle"
    /\ \E d \in DurationArgs :
          /\ ClampDuration(d) # refresh_duration
          /\ refresh_duration' = ClampDuration(d)
    /\ UNCHANGED <<pvars, kind, heap, display_surface, last_buffer, frame_count,
                   apc, ai, mpc, window, passed, drawn, now, refresh_animation,
                   refresh_start_time, prev_display_surface, new_surface,
                   phase_reveal, elapsed, reveal_row, phase>>
    /\ UNCHANGED lvars

\* ------------------------------------- e-ink render(), on the calling thread
\* PicoGraphics.update() calls display.render(self._buffer) on the thread of
\* the application.  render(): _last_buffer = buffer; _frame_count += 1.
\* The clock is read relative to this call: the code uses only differences
\* of clock readings.
EinkRenderCall ==
    /\ kind = "eink"
    /\ apc = "idle"
    /\ frame_count < MaxRenders
    /\ last_buffer' = BUF
    /\ frame_count' = frame_count + 1
    /\ passed' = heap[BUF].px
    /\ now' = 0
    /\ apc' = "e_prev"
    /\ UNCHANGED <<pvars, kind, heap, display_surface, ai, mpc, window, drawn,
                   refresh_duration, refresh_animation, refresh_start_time,
                   prev_display_surface, new_surface, phase_reveal, elapsed,
                   reveal_row, phase>>
    /\ UNCHANGED lvars

\* render(): _prev_display_surface = _display_surface.copy()
EinkSavePrev ==
    /\ apc = "e_prev"
    /\ LET t == CopyTarget(display_surface, {display_surface, prev_display_surface, new_surface})
       IN /\ heap' = Collect([heap EXCEPT ![t] = Obj(heap[display_surface].px, frame_count - 1, heap[display_surface].of)],
                             {display_surface, t})
          /\ prev_display_surface' = t
    /\ apc' = "e_convert"
    /\ ai' = 1
    /\ UNCHANGED <<pvars, kind, display_surface, last_buffer, frame_count, mpc,
                   window, passed, drawn, now, refresh_duration,
                   refresh_animation, refresh_start_time, new_surface,
                   phase_reveal, elapsed, reveal_row, phase>>
    /\ UNCHANGED lvars

\* _convert_buffer(): one _display_surface.set_at((x, y), pixel_color)
EinkConvert ==
    /\ apc = "e_convert"
    /\ heap' = [heap EXCEPT ![display_surface].px[CellAt(ai)] =
                    ConvertPixel(heap[BUF].px[CellAt(ai)], 0, CellAt(ai) - 1,
                                 EinkIsColor, EinkDither, EinkPalette)]
    /\ IF ai = NumCells THEN apc' = "e_new" /\ ai' = 0
                        ELSE apc' = apc /\ ai' = ai + 1
    /\ UNCHANGED <<pvars, evars, kind, display_surface, last_buffer,
                   frame_count, mpc, window, passed, drawn>>
    /\ UNCHANGED lvars

\* render(): new_surface = _display_surface.copy(); _refresh_animation = True;
\* _refresh_start_time = time(); phase_reveal = duration - 0.15 - 0.15
EinkStartRefresh ==
    /\ apc = "e_new"
    /\ LET t == CopyTarget(display_surface, {display_surface, prev_display_surface, new_surface})
       IN /\ heap' = [heap EXCEPT ![t] = Obj(heap[display_surface].px, frame_count, passed)]
          /\ new_surface' = t
    /\ refresh_animation' = TRUE
    /\ refresh_start_time' = now
    /\ phase_reveal' = refresh_duration - PhaseInvert - PhaseBlack
    /\ elapsed' = 0
    /\ apc' = "e_sample"
    /\ UNCHANGED <<pvars, kind, display_surface, last_buffer, frame_count, ai,
                   mpc, window, passed, drawn, now, refresh_duration,
                   prev_display_surface, reveal_row, phase>>
    /\ UNCHANGED lvars

\* (variant: the reveal line is measured from the time left, not the time run)
\* the revealed rows rounded to the nearest row instead of cut off
RevealRowRounded(e, pr) == (2 * (e - PhaseInvert - PhaseBlack) * DisplayHeight + pr) \div (2 * pr)

RevealRowRemaining(e, pr) == ((refresh_duration - e) * DisplayHeight) \div pr

\* int(reveal_t * disp_h) with reveal_t = (elapsed - 0.15 - 0.15) / phase_reveal
RevealRow(e, pr) == ((e - PhaseInvert - PhaseBlack) * DisplayHeight) \div pr

\* (variant: the black flash comes before the inverted image)
PhaseOfSwapped(e) ==
    IF e < PhaseInvert THEN "blank"
    ELSE IF e < PhaseInvert + PhaseBlack THEN "invert"
    ELSE "reveal"

\* (variant: the phase lengths are 15%, 15% and 70% of the duration)
PhaseOfPercent(e) ==
    IF 100 * e < 15 * refresh_duration THEN "invert"
    ELSE IF 100 * e < 30 * refresh_duration THEN "blank"
    ELSE "reveal"

\* the phase a sample with this elapsed time displays
PhaseOf(e) ==
    IF e < PhaseInvert THEN "invert"
    ELSE IF e < PhaseInvert + PhaseBlack THEN "blank"
    ELSE "reveal"

\* (variant: elapsed is compared with the length of the reveal phase)
RefreshOverReveal(e) == e >= phase_reveal

\* the loop leaves the animation at this sample
RefreshOver(e) == e >= refresh_duration

\* (variant: the reveal is blitted over what the surface held, without the fill)
RevealBaseStale(c) == heap[display_surface].px[c]

\* reveal phase: _display_surface.fill((245, 245, 240)) before the blit
RevealBase(c) == InkWhite

\* (variant: the start time is read again at every sample)
ElapsedSinceNow(start) == now - now

\* elapsed = _time.time() - self._refresh_start_time
ElapsedSince(start) == now - start

\* render(): one pass of "while True": elapsed = time() - start; break when
\* elapsed >= duration; otherwise put the phase on _display_surface.  The
\* inverted copy replaces the surface _display_surface named, which nothing
\* else names: the copy takes the smallest id free once that one is dropped.
EinkSample ==
    /\ apc = "e_sample"
    /\ LET e == ElapsedSince(refresh_start_time)
       IN /\ elapsed' = e
          /\ IF RefreshOver(e)
             THEN /\ apc' = "e_final"
                  /\ UNCHANGED <<heap, display_surface, phase, reveal_row>>
             ELSE /\ apc' = "e_drawing"
                  /\ phase' = PhaseOf(e)
                  /\ IF PhaseOf(e) = "invert"
                     THEN LET t == NewId({prev_display_surface, new_surface})
                          IN /\ heap' = Collect([heap EXCEPT ![t] =
                                            Obj(Inverted(heap[prev_display_surface].px), frame_count, passed)],
                                            {t, prev_display_surface, new_surface})
                             /\ display_surface' = t
                             /\ UNCHANGED reveal_row
                     ELSE IF PhaseOf(e) = "blank"
                     THEN /\ heap' = [heap EXCEPT ![display_surface].px = Blank(InkBlack)]
                          /\ UNCHANGED <<display_surface, reveal_row>>
                     ELSE /\ reveal_row' = RevealRow(e, phase_reveal)
                          /\ heap' = [heap EXCEPT ![display_surface].px =
                                        [c \in Cells |-> IF c <= RevealRow(e, phase_reveal)
                                                         THEN heap[new_surface].px[c]
                                                         ELSE RevealBase(c)]]
                          /\ UNCHANGED display_surface
    /\ UNCHANGED <<pvars, kind, last_buffer, frame_count, ai, mpc, window,
                   passed, drawn, now, refresh_duration, refresh_animation,
                   refresh_start_time, prev_display_surface, new_surface,
                   phase_reveal>>
    /\ UNCHANGED lvars

\* render(): self._draw_window(), run by the thread that runs render(): scale
\* and blit _display_surface, flip.  elapsed is dead after the draw,
\* reveal_row stays until the next sample assigns it; after the final draw
\* render() returns (autosave is off) and no clock reading of this call is
\* used again: the clock is counted from zero for the next call.
EinkDrawFlip ==
    /\ apc \in {"e_drawing", "e_fdrawing"}
    /\ window' = heap[display_surface].px
    /\ elapsed' = 0
    /\ IF apc = "e_drawing"
       THEN /\ apc' = "e_sleep"
            /\ UNCHANGED <<heap, new_surface, phase_reveal, reveal_row, now>>
       ELSE /\ apc' = "idle"
            /\ new_surface' = NoRef
            /\ phase_reveal' = 0
            /\ reveal_row' = 0
            /\ now' = 0
            /\ heap' = Collect(heap, {display_surface, prev_display_surface})
    /\ UNCHANGED <<pvars, kind, display_surface, last_buffer, frame_count, ai,
                   mpc, passed, drawn, refresh_duration, refresh_animation,
                   refresh_start_time, prev_display_surface, phase>>
    /\ UNCHANGED lvars

\* the latest clock reading of a render() call: the loop is left at the first
\* sample at or after the longest duration
MaxNow == MaxDuration + MaxStep

\* render(): _time.sleep(0.016) after the draw; the clock has moved on by
\* less than a quantum (d = 0) or by up to MaxStep quanta when it returns
EinkSleep ==
    /\ apc = "e_sleep"
    /\ \E d \in 0..MaxStep : now + d <= MaxNow /\ now' = now + d
    /\ apc' = "e_sample"
    /\ UNCHANGED <<pvars, kind, heap, display_surface, last_buffer, frame_count,
                   ai, mpc, window, passed, drawn, refresh_duration,
                   refresh_animation, refresh_start_time, prev_display_surface,
                   new_surface, phase_reveal, elapsed, reveal_row, phase>>
    /\ UNCHANGED lvars

\* render(): after the loop: _display_surface = new_surface;
\* _refresh_animation = False
EinkFinal ==
    /\ apc = "e_final"
    /\ display_surface' = new_surface
    /\ heap' = Collect(heap, {new_surface, prev_display_surface})
    /\ refresh_animation' = FALSE
    /\ phase' = "idle"
    /\ apc' = "e_fdrawing"
    /\ UNCHANGED <<pvars, kind, last_buffer, frame_count, ai, mpc, window,
                   passed, drawn, now, refresh_duration, refresh_start_time,
                   prev_display_surface, new_surface, phase_reveal, elapsed,
                   reveal_row>>
    /\ UNCHANGED lvars

\* ----------------------------------------------------- main thread (e-ink)
\* the event loop calls refresh_ui() on a mouse click on a button; EInkDisplay
\* has no tick().  refresh_ui(): "if not headless and _display_surface"
EinkRefreshUi ==
    /\ running
    /\ kind = "eink"
    /\ mpc = "idle"
    /\ display_surface # NoRef
    /\ mpc' = "rf_drawing"
    /\ UNCHANGED <<pvars, evars, kind, heap, display_surface, last_buffer,
                   frame_count, apc, ai, window, passed, drawn>>
    /\ UNCHANGED lvars

\* _draw_window() on the main thread: scale and blit _display_surface, flip
EinkMainDrawFlip ==
    /\ mpc = "rf_drawing"
    /\ window' = heap[display_surface].px
    /\ mpc' = "idle"
    /\ UNCHANGED <<pvars, evars, kind, heap, display_surface, last_buffer,
                   frame_count, apc, ai, passed, drawn>>
    /\ UNCHANGED lvars

NextEink ==
    \/ AppDraw
    \/ EinkSetRefreshSpeed
    \/ EinkRenderCall
    \/ EinkSavePrev
    \/ EinkConvert
    \/ EinkStartRefresh
    \/ EinkSample
    \/ EinkDrawFlip
    \/ EinkSleep
    \/ EinkFinal
    \/ EinkRefreshUi
    \/ EinkMainDrawFlip

SpecEink == InitEink /\ [][NextEink]_vars

\* ============================================== framebuffers of other sizes
\* heights of the framebuffers an application hands to render(): none, less
\* than, equal to and more than the display's
BufferHeights == 0..(DisplayHeight + 1)

\* [[0] * width for _ in range(height)]
NewBuffer(h) == [c \in 1..h |-> 0]

\* the application goes on with a framebuffer of another height (a
\* PicoGraphics made for another display, an empty list)
AppNewBuffer ==
    /\ apc = "idle"
    /\ \E h \in BufferHeights :
          /\ h # Len(heap[BUF].px)
          /\ heap' = [heap EXCEPT ![BUF].px = NewBuffer(h)]
    /\ UNCHANGED <<evars, pvars, lvars, kind, display_surface, last_buffer,
                   frame_count, apc, ai, mpc, window, passed, drawn>>

NextSizes ==
    \/ NextPanel
    \/ AppNewBuffer

SpecSizes == InitPanel /\ [][NextSizes]_vars

\* C15 (a buffer of the wrong size is refused): no frame made from a buffer
\* whose height differs from the display's is ever published; render() ends
\* such a call with an error instead.
C15_MismatchRefused ==
    ready_surface # NoRef => Len(heap[ready_surface].of) = DisplayHeight

\* C16 (a missing or empty frame changes nothing): a _draw_window that finds
\* no published frame, or the frame of an empty buffer published right after
\* the frame the window shows, leaves the window as it was.
C16_EmptyFrameNoOp ==
    [][(/\ mpc = "dw_blit"
        /\ mpc' = "idle"
        /\ window # NoFrame
        /\ \/ surface = NoRef
           \/ /\ heap[surface].of = <<>>
              /\ drawn[2] = heap[surface].n - 1)
       => window' = window]_vars

\* ============================================================ headless mode
\* _buffer_to_image of EInkDisplay: the colour of the image at (x, y)
\* the image colour without the warm offset of the colour panels
EinkImagePixelPlain(color, x, y, is_color, dither, palette) ==
    LET rgb == EinkRGB(color)
    IN IF is_color
       THEN FindNearestColor(rgb[1], rgb[2], rgb[3], palette)
       ELSE IF Luminance(rgb) > (IF dither THEN DitherThreshold(x, y) ELSE 128)
            THEN InkWhite ELSE InkBlack

EinkImagePixel(color, x, y, is_color, dither, palette) ==
    LET rgb == EinkRGB(color)
    IN IF is_color
       THEN LET pc == FindNearestColor(rgb[1], rgb[2], rgb[3], palette)
            IN <<IF pc[1] - 10 > 0 THEN pc[1] - 10 ELSE 0,
                 IF pc[2] - 10 > 0 THEN pc[2] - 10 ELSE 0,
                 IF pc[3] - 5 > 0 THEN pc[3] - 5 ELSE 0>>
       ELSE IF Luminance(rgb) > (IF dither THEN DitherThreshold(x, y) ELSE 128)
            THEN InkWhite ELSE InkBlack

\* _buffer_to_image(buffer): an image of the buffer's own size; BaseDisplay
\* unpacks RGB, EInkDisplay translates to ink colours
BufferToImage(px) ==
    IF kind = "eink"
    THEN [c \in DOMAIN px |-> EinkImagePixel(px[c], 0, c - 1, EinkIsColor, EinkDither, EinkPalette)]
    ELSE [c \in DOMAIN px |-> UnpackRGB(px[c])]

\* main(), headless: the profile is chosen, no renderer is built yet; the
\* application's framebuffer is object BUF
InitBoot ==
    /\ device \in Devices
    /\ headless = TRUE
    /\ running = TRUE
    /\ result = NoResult
    /\ call = NoCall
    /\ InitInput
    /\ kind = "none"
    /\ heap = [i \in ObjIds |-> IF i = BUF THEN Obj(Blank(0), 0, <<>>) ELSE NoObj]
    /\ display_surface = NoRef
    /\ ready_surface = NoRef
    /\ dirty = FALSE
    /\ render_lock = "free"
    /\ last_buffer = NoRef
    /\ frame_count = 0
    /\ apc = "idle"
    /\ ai = 0
    /\ mpc = "idle"
    /\ mcaller = None
    /\ surface = NoRef
    /\ window = NoFrame
    /\ passed = <<>>
    /\ pubs = 0
    /\ fresh = FALSE
    /\ tick_fresh = FALSE
    /\ skipped = {}
    /\ drawn = <<None, 0, <<>> >>
    /\ now = 0
    /\ refresh_duration = DefaultDuration
    /\ refresh_animation = FALSE
    /\ refresh_start_time = 0
    /\ prev_display_surface = NoRef
    /\ new_surface = NoRef
    /\ phase_reveal = 0
    /\ elapsed = 0
    /\ reveal_row = 0
    /\ phase = "idle"

\* what the headless operations leave alone
hvars == <<pvars, evars, display_surface, apc, ai, mpc, window, drawn, device, headless,
           call, ivars>>

\* create_display(device, headless=True) and display.init(), which returns
\* at once: no window, no surface
BootDisplay ==
    /\ kind = "none"
    /\ kind' = CreateDisplay(device)
    /\ UNCHANGED <<hvars, heap, last_buffer, frame_count, passed, running, result>>

\* render(buffer), headless: _last_buffer = buffer; _frame_count += 1;
\* _autosave_frame() without an autosave directory; return
HeadlessRender ==
    /\ kind # "none"
    /\ headless
    /\ running
    /\ apc = "idle"
    /\ frame_count < MaxRenders
    /\ last_buffer' = BUF
    /\ frame_count' = frame_count + 1
    /\ passed' = heap[BUF].px
    /\ UNCHANGED <<hvars, kind, heap, running, result>>

\* get_surface(), headless: "if self._last_buffer: return
\* self._buffer_to_image(self._last_buffer)", else None.  An empty list is
\* false.
GetSurface ==
    /\ kind # "none"
    /\ headless
    /\ running
    /\ result' = IF last_buffer # NoRef /\ heap[last_buffer].px # <<>>
                 THEN [op |-> "get_surface", ok |-> TRUE, img |-> BufferToImage(heap[last_buffer].px)]
                 ELSE [op |-> "get_surface", ok |-> FALSE, img |-> <<>>]
    /\ UNCHANGED <<hvars, kind, heap, last_buffer, frame_count, passed, running>>

\* screenshot(filename): "if self._last_buffer is None: return False", else
\* the image is saved and True returned
Screenshot ==
    /\ kind # "none"
    /\ headless
    /\ running
    /\ result' = IF last_buffer # NoRef
                 THEN [op |-> "screenshot", ok |-> TRUE, img |-> BufferToImage(heap[last_buffer].px)]
                 ELSE [op |-> "screenshot", ok |-> FALSE, img |-> <<>>]
    /\ UNCHANGED <<hvars, kind, heap, last_buffer, frame_count, passed, running>>

\* main(), finally: display.close(), which does nothing when headless;
\* state["running"] = False
HeadlessClose ==
    /\ kind # "none"
    /\ headless
    /\ running
    /\ running' = FALSE
    /\ UNCHANGED <<hvars, kind, heap, last_buffer, frame_count, passed, result>>

NextBoot ==
    \/ BootDisplay
    \/ kind # "none" /\ running /\ AppDraw
    \/ kind # "none" /\ running /\ AppNewBuffer
    \/ HeadlessRender
    \/ GetSurface
    \/ Screenshot
    \/ HeadlessClose

SpecBoot == InitBoot /\ [][NextBoot]_vars

\* C17 (headless mode): no operation makes a window or a surface; a render()
\* records the buffer and adds one to the frame counter; get_surface() returns
\* nothing before the first render() and the image of the recorded buffer
\* after it; screenshot() returns False before the first render().
C17_HeadlessImageOnly ==
    /\ [](headless => window = NoFrame /\ display_surface = NoRef /\ ready_surface = NoRef)
    /\ [][frame_count' # frame_count =>
            frame_count' = frame_count + 1 /\ last_buffer' = BUF /\ heap' = heap]_vars
    /\ [][(result' # result /\ result'.op = "get_surface") =>
            IF frame_count = 0 THEN ~result'.ok
            ELSE result'.ok /\ result'.img = BufferToImage(heap[last_buffer].px)]_vars
    /\ [][(result' # result /\ result'.op = "screenshot" /\ frame_count = 0) =>
            ~result'.ok]_vars

\* C18 (renderer selection): the renderer built for a profile is the e-ink
\* renderer when the profile is an e-ink device, the LED-matrix renderer when
\* it declares an LED matrix, and the panel renderer otherwise.
C18_RendererMatchesProfile ==
    kind # "none" =>
        kind = (IF IsEink(device) THEN "eink"
                ELSE IF DisplayType(device) = "led_matrix" THEN "led"
                ELSE "tft")

\* ====================================================== end of the application
\* renderer state the end of the application leaves alone
svars == <<kind, heap, display_surface, last_buffer, frame_count, ai, passed, drawn>>

\* the profiles of the checked runs: one per renderer class, and a colour
\* e-ink profile
RunDevices == PanelDevices \cup {"Badger2350Device", "InkyFrame73Device"}

InitLife == \E d \in RunDevices : InitRenderer(CreateDisplay(d)) /\ InitRun(d)

\* how app_thread() ends: runpy.run_path returns, raises an Exception
\* (caught and printed), or raises the SystemExit of machine.reset()
AppEndModes == {"returned", "raised", "reset"}

\* powman.sleep(), called by the application: state["running"] = False
AppPowmanSleep ==
    /\ apc = "idle"
    /\ running
    /\ running' = FALSE
    /\ UNCHANGED <<pvars, evars, svars, apc, mpc, window, device, headless, result, call, ivars>>

\* app_thread(): the script ends; finally: state["running"] = False unless
\* the device is_eink
AppExit ==
    /\ apc = "idle"
    /\ \E how \in AppEndModes : apc' = how
    /\ running' = (IF IsEink(device) THEN running ELSE FALSE)
    /\ UNCHANGED <<pvars, evars, svars, mpc, window, device, headless, result, call, ivars>>

\* run_app_interactive(): "while state["running"]" is left; main() closes the
\* display (pygame.quit())
MainLoopExit ==
    /\ mpc = "idle"
    /\ ~running
    /\ mpc' = "closed"
    /\ window' = NoFrame
    /\ UNCHANGED <<pvars, evars, svars, apc, device, headless, running, result, call, ivars>>

NextLife ==
    \/ NextPanel
    \/ NextEink
    \/ AppPowmanSleep
    \/ AppExit
    \/ MainLoopExit

SpecLife == InitLife /\ [][NextLife]_vars

\* C14 (the redraw loop outlives the application): whatever the application
\* thread does, return, raise, machine.reset() or powman.sleep(), the main
\* loop's running flag stays set and the loop is not left: the window keeps
\* being redrawn.
C14_RedrawLoopSurvives ==
    running /\ mpc # "closed"

\* ======================================================== panel properties
\* what the published object of a render() call holds
Stored(px) == IF kind = "led" THEN px ELSE [c \in Cells |-> UnpackRGB(px[c])]

\* C1 (no tearing): whatever the main thread has drawn on the window is, cell
\* for cell, the content passed to one render() call, the one whose copy it
\* took; it is never a mix of two calls.
C1_NoTearing ==
    window # NoFrame =>
        /\ drawn[2] \in 1..frame_count
        /\ window = Shown(drawn[3])

\* C1 witness: the main thread is about to draw its snapshot while a TFT
\* render() of a different frame has the back buffer half written.
C1_Witness ==
    /\ kind = "tft"
    /\ mpc = "dw_blit"
    /\ surface # NoRef
    /\ apc = "set_at"
    /\ ai > 1
    /\ frame_count = 2
    /\ heap[surface].n = 1
    /\ heap[display_surface].px # Shown(heap[surface].of)
    /\ heap[display_surface].px # Shown(passed)

\* C2 (latest wins): the slot always holds the frame of the last completed
\* publish; a frame replaced in the slot before it was taken is never drawn
\* or held by the main thread; and a published frame not yet taken while the
\* main thread is between ticks leaves the dirty flag set once render() has
\* executed its publish, so the next tick draws it.
C2_LatestWins ==
    /\ ready_surface # NoRef => heap[ready_surface].n = pubs
    /\ drawn[2] \notin skipped
    /\ surface # NoRef => heap[surface].n \notin skipped
    /\ (mpc = "idle" /\ fresh /\ apc # "set_dirty") => dirty

\* C2 witness: render(F1) and render(F2) completed with no take in between,
\* and a tick then drew F2.
C2_Witness ==
    /\ skipped = {1}
    /\ drawn[1] = "tick"
    /\ drawn[2] = 2
    /\ window = Shown(passed)

\* C3 (copy on publish): the published object is neither the application's
\* buffer nor the back buffer, and it holds exactly what was passed to its
\* render() call whatever the application has written since; the same for
\* the snapshot the main thread draws from.
C3_CopyOnPublish ==
    /\ ready_surface # NoRef =>
          /\ ready_surface \notin {BUF, display_surface}
          /\ heap[ready_surface].px = Stored(heap[ready_surface].of)
    /\ surface # NoRef =>
          /\ surface \notin {BUF, display_surface}
          /\ heap[surface].px = Stored(heap[surface].of)

\* C3 witness: render() has returned, the application has since written into
\* its buffer, and the main thread is about to draw the published frame.
C3_Witness ==
    /\ apc = "idle"
    /\ frame_count >= 1
    /\ heap[BUF].px # passed
    /\ mpc = "dw_blit"
    /\ surface # NoRef
    /\ surface = ready_surface

\* C5 (a tick draws only a new frame): when tick()'s _draw_window takes the
\* frame to draw, a render() has published since tick() last took one.
C5_TickDrawsOnlyNew ==
    [][(mpc = "dw_take" /\ mcaller = "tick" /\ mpc' = "dw_blit") => tick_fresh]_vars


\* ======================================================== e-ink properties
\* positions of the thread running render() inside the animation loop
AnimationPcs == {"e_sample", "e_drawing", "e_sleep"}
\* positions of the thread running render() inside _draw_window
AppDrawPcs == {"e_drawing", "e_fdrawing"}

\* a step of render() other than its timed sleep
AppRenderStep ==
    \/ TftSetAt
    \/ AppAcquire
    \/ AppPublish
    \/ AppSetDirty
    \/ AppRelease
    \/ EinkSavePrev
    \/ EinkConvert
    \/ EinkStartRefresh
    \/ EinkSample
    \/ EinkDrawFlip
    \/ EinkFinal

\* C4 (publish never blocks): a thread inside render() can always take its
\* next step, unless the main thread holds the frame lock; it never waits for
\* the clock or for a tick.
C4_PublishNeverBlocks ==
    apc # "idle" => (render_lock = "main" \/ ENABLED AppRenderStep)

\* C6 (the animation runs on the redraw thread): the thread that called
\* render() is never at a step of the animation loop (sampling the clock,
\* drawing an intermediate state, sleeping between samples).
C6_AnimationOnMainThread ==
    apc \notin AnimationPcs

\* C7 (only the main thread draws): the thread that called render() is never
\* inside _draw_window, and the main thread is never inside _draw_window
\* while another thread is inside it or is writing the surface it reads.
C7_OnlyMainDraws ==
    /\ apc \notin AppDrawPcs
    /\ mpc = "rf_drawing" => apc \notin {"e_convert", "e_sample"}

\* order of the phases within a refresh
PhaseRank(p) ==
    IF p = "idle" THEN 0 ELSE IF p = "invert" THEN 1 ELSE IF p = "blank" THEN 2 ELSE 3

\* C8, first half (phases never move backward): the displayed phase changes
\* only forward in the order Invert, Blank, Reveal, or to Idle when the loop
\* has been left.
C8_PhaseStep ==
    phase' # phase =>
        \/ PhaseRank(phase') > PhaseRank(phase)
        \/ phase' = "idle" /\ apc = "e_final"

C9_RefreshTiming ==
    /\ apc = "e_drawing" => elapsed < refresh_duration
    /\ apc = "e_final" =>
          /\ elapsed >= refresh_duration
          /\ elapsed < refresh_duration + MaxStep
    /\ (apc = "e_fdrawing" /\ phase = "idle") =>
          now - refresh_start_time >= refresh_duration

\* C9 witness: the loop is left at a sample later than D.
C9_Witness ==
    /\ apc = "e_final"
    /\ elapsed > refresh_duration

SpecEinkFair ==
    /\ InitEink
    /\ [][NextEink]_vars
    /\ WF_vars(AppRenderStep)
    /\ SF_vars(EinkSleep /\ now' > now)

\* C13 (a started refresh completes): a render() that has been entered
\* returns with the animation over, whatever the duration and whatever the
\* main thread does meanwhile.
C13_RefreshCompletes ==
    (apc # "idle") ~> (apc = "idle" /\ phase = "idle" /\ ~refresh_animation)

\* C13 witness: a refresh of the longest duration has left the loop.
C13_Witness ==
    /\ apc = "e_fdrawing"
    /\ refresh_duration = MaxDuration
    /\ ~refresh_animation
    /\ mpc = "rf_drawing"

\* ------------------------------------------------ pixel conversion, as called
\* The conversions of the e-ink renderer are functions of their arguments;
\* each action below is one call, with its arguments and result kept in call
\* until the caller has used the result.

\* channel values of the colours quantised
ChannelValues == {0, 64, 128, 192, 255}

\* palettes handed to _find_nearest_color: the three of the renderer, and a
\* two-colour one in the other order
TestPalettes == {EinkPalette, Spectra6Palette, Acep7Palette,
                 <<<<255, 255, 255>>, <<0, 0, 0>>>>}

\* raw framebuffer values converted: pen indices, gray levels around the three
\* thresholds, packed colours
RawPixels ==
    {0, 5, 6, 7, 8, 9, 10, 15, 16, 96, 97, 128, 129, 160, 161, 255,
     PackRGB(129, 128, 128), PackRGB(128, 128, 129), PackRGB(31, 203, 5),
     PackRGB(12, 110, 253), PackRGB(11, 251, 91), PackRGB(97, 96, 96),
     PackRGB(255, 255, 255), PackRGB(255, 64, 0), PackRGB(0, 1, 0)}

\* (_is_color, _palette) as the constructor sets them from the profile's
\* is_color and eink_colors, read independently of each other
EinkConfigs == BOOLEAN \X {EinkPalette, Spectra6Palette, Acep7Palette}

\* columns and rows of the pixels converted
PixelCoords == 0..1

InitTranslate == InitEink

\* everything but call
tvars == <<pvars, evars, svars, apc, mpc, window, device, headless, running, result, ivars>>

\* _find_nearest_color(r, g, b, palette)
CallFindNearest ==
    /\ call = NoCall
    /\ \E r \in ChannelValues, g \in ChannelValues, b \in ChannelValues, p \in TestPalettes :
          call' = [fn |-> "find_nearest_color", color |-> PackRGB(r, g, b), x |-> 0, y |-> 0,
                   is_color |-> TRUE, dither |-> FALSE, palette |-> p,
                   rgb |-> <<r, g, b>>, out |-> FindNearestColor(r, g, b, p)]
    /\ UNCHANGED tvars

\* _convert_buffer: one pixel of the loop
CallConvertBuffer ==
    /\ call = NoCall
    /\ \E color \in RawPixels, x \in PixelCoords, y \in PixelCoords, cf \in EinkConfigs,
          d \in BOOLEAN :
          call' = [fn |-> "convert_buffer", color |-> color, x |-> x, y |-> y,
                   is_color |-> cf[1], dither |-> d, palette |-> cf[2],
                   rgb |-> EinkRGB(color),
                   out |-> ConvertPixel(color, x, y, cf[1], d, cf[2])]
    /\ UNCHANGED tvars

\* _buffer_to_image: one pixel of the loop
CallBufferToImage ==
    /\ call = NoCall
    /\ \E color \in RawPixels, x \in PixelCoords, y \in PixelCoords, cf \in EinkConfigs,
          d \in BOOLEAN :
          call' = [fn |-> "buffer_to_image", color |-> color, x |-> x, y |-> y,
                   is_color |-> cf[1], dither |-> d, palette |-> cf[2],
                   rgb |-> EinkRGB(color),
                   out |-> EinkImagePixel(color, x, y, cf[1], d, cf[2])]
    /\ UNCHANGED tvars

\* the caller has used the colour returned (set_at, pixels[x, y] = ...)
CallDone ==
    /\ call # NoCall
    /\ call' = NoCall
    /\ UNCHANGED tvars

NextTranslate ==
    \/ CallFindNearest
    \/ CallConvertBuffer
    \/ CallBufferToImage
    \/ CallDone

SpecTranslate == InitTranslate /\ [][NextTranslate]_vars

\* C19: for every RGB triple and every non-empty palette, _find_nearest_color
\* returns a palette member at the least squared distance from the input, and
\* of several members at that distance the one earliest in the palette.
C19_NearestEarliest ==
    call.fn = "find_nearest_color" =>
        LET c == UnpackRGB(call.color)
            p == call.palette
            D(q) == SqDist(c[1], c[2], c[3], q)
        IN \E i \in DOMAIN p :
              /\ call.out = p[i]
              /\ \A j \in DOMAIN p : D(p[i]) <= D(p[j])
              /\ \A j \in 1..(i - 1) : D(p[j]) > D(p[i])

\* C19 witness: a call where two different palette members are both nearest,
\* and the earlier one was returned
C19_Witness ==
    /\ call.fn = "find_nearest_color"
    /\ LET c == UnpackRGB(call.color)
           p == call.palette
           D(q) == SqDist(c[1], c[2], c[3], q)
       IN \E i \in DOMAIN p, j \in DOMAIN p :
             /\ i < j
             /\ p[i] # p[j]
             /\ D(p[i]) = D(p[j])
             /\ \A k \in DOMAIN p : D(p[i]) <= D(p[k])
             /\ call.out = p[i]

\* C20: on a non-colour e-ink device with dithering on, the pixel at (x, y) of
\* luminance Y = 0.299 r + 0.587 g + 0.114 b is ink white exactly when
\* Y > 128 + (16 if x is odd else -16) + (16 if y is odd else -16), and ink
\* black otherwise: the decision is a function of (x, y, Y).  Y is compared
\* in thousandths.
C20_DitherDecision ==
    (call.fn \in {"convert_buffer", "buffer_to_image"} /\ ~call.is_color /\ call.dither) =>
        LET c == EinkRGB(call.color)
            Y1000 == 299 * c[1] + 587 * c[2] + 114 * c[3]
            T == 128 + (IF call.x % 2 = 1 THEN 16 ELSE -16)
                     + (IF call.y % 2 = 1 THEN 16 ELSE -16)
        IN call.out = (IF Y1000 > 1000 * T THEN InkWhite ELSE InkBlack)

\* C21: on e-ink a raw pixel value v <= 15 is a gray index giving
\* r = g = b = floor(v * 255 / 15), a value 16..255 is the gray level
\* r = g = b = v, and a value above 255 is unpacked as 24-bit RGB, for every
\* pixel position, configuration and both conversions.
C21_PixelInterpretation ==
    call.fn \in {"convert_buffer", "buffer_to_image"} =>
        LET v == call.color
            c == call.rgb
        IN IF v <= 15
           THEN c[1] = c[2] /\ c[2] = c[3] /\ 15 * c[1] <= 255 * v /\ 255 * v < 15 * (c[1] + 1)
           ELSE IF v <= 255
           THEN c = <<v, v, v>>
           ELSE /\ \A k \in 1..3 : c[k] \in 0..255
                /\ (c[1] * 256 + c[2]) * 256 + c[3] = v

\* C21 witness: the first value past the indices, 16, converted as gray 16
C21_Witness ==
    call.fn = "convert_buffer" /\ call.color = 16 /\ call.rgb = <<16, 16, 16>> /\ call.x = 1

\* C29: for every raw pixel, position, palette, mode and dither setting the
\* window path (_convert_buffer) and the image path (_buffer_to_image) give
\* the same colour, warm offset included.
C29_TranslationsAgree ==
    /\ call.fn = "buffer_to_image" =>
          call.out = ConvertPixel(call.color, call.x, call.y, call.is_color, call.dither,
                                  call.palette)
    /\ call.fn = "convert_buffer" =>
          call.out = EinkImagePixel(call.color, call.x, call.y, call.is_color, call.dither,
                                    call.palette)

\* C29 witness: an image pixel in colour mode that took the offset on one
\* channel and has channels at 0, where the two paths compute differently
C29_Witness ==
    call.fn = "buffer_to_image" /\ call.is_color /\ call.out = <<245, 0, 0>>

\* C23: the refresh duration is within [0.1 s, 2.0 s] before the first
\* set_refresh_speed call and after any sequence of calls: every new value is
\* the argument of a call, raised to 0.1 s if below and lowered to 2.0 s if
\* above.
C23_DurationClamped ==
    /\ [](refresh_duration \in MinDuration..MaxDuration)
    /\ [][refresh_duration' # refresh_duration =>
            \E d \in DurationArgs :
               refresh_duration' = (IF d < MinDuration THEN MinDuration
                                    ELSE IF d > MaxDuration THEN MaxDuration
                                    ELSE d)]_vars

\* C23 witness: after a call that set the lower limit a refresh has run its
\* whole length of 0.1 s
C23_Witness ==
    /\ refresh_duration = MinDuration
    /\ apc = "e_final"
    /\ elapsed >= MinDuration

\* C30: for every configured duration, those of 0.3 s or less included, a
\* sample takes the Reveal branch only when the Reveal phase length is
\* positive (no division by zero), with the reveal fraction in [0, 1) and the
\* revealed row count in [0, display_height).
C30_RevealGuarded ==
    [][(apc = "e_sample" /\ apc' = "e_drawing" /\ phase' = "reveal") =>
          /\ phase_reveal > 0
          /\ 0 <= elapsed' - PhaseInvert - PhaseBlack
          /\ elapsed' - PhaseInvert - PhaseBlack < phase_reveal
          /\ reveal_row' \in 0..(DisplayHeight - 1)]_vars

\* C30 witness: a Reveal sample under the shortest duration that has a Reveal
\* phase, one quantum long
C30_Witness ==
    /\ apc = "e_drawing"
    /\ phase = "reveal"
    /\ phase_reveal = 1
    /\ reveal_row = 0

\* C27: the image made by screenshot(), and by get_surface() in headless
\* mode, shows the buffer contents as they were at the most recent render()
\* call; what the application draws into its buffer after that render() does
\* not appear in it.
C27_ImageOfRenderedFrame ==
    [][(result' # result /\ result'.ok) => result'.img = BufferToImage(passed)]_vars

\* ------------------------------------------------ panel runs, fair schedule
\* The application thread is scheduled while it is inside render(); the main
\* loop calls tick() in every pass (strong fairness: tick() cannot start
\* while a refresh_ui() redraw is under way) and a redraw once started runs
\* to its end.
SpecPanelFair ==
    /\ InitPanel
    /\ [][NextPanel]_vars
    /\ WF_vars(TftSetAt \/ AppAcquire \/ AppPublish \/ AppSetDirty \/ AppRelease)
    /\ SF_vars(Tick)
    /\ WF_vars(TickClear \/ DrawAcquire \/ DrawTake \/ DrawBlit)

\* C26 (no lost update): tick() reads and clears the dirty flag without the
\* frame lock, yet under every interleaving with render(), with a main loop
\* that keeps ticking, each completed render of frame n is eventually followed
\* by a window drawn from frame n or a later one.
C26_NoLostUpdate ==
    \A n \in 1..MaxRenders :
        (apc = "idle" /\ frame_count = n) ~> (drawn[2] >= n)

\* C26 witness: tick() has read the flag set for frame 1 and not yet cleared
\* it, and meanwhile render() has published frame 2 and set the flag again
C26_Witness ==
    /\ mpc = "tick_clear"
    /\ apc = "release"
    /\ frame_count = 2
    /\ drawn[2] = 0

\* ------------------------------------------------- LED cells, as drawn
\* _draw_window of the LED matrix draws each cell from its buffer value; the
\* action below is the body of the loop for one cell, with the drawing calls
\* it makes, in order, kept in call.out.

\* r, g, b of a cell: packed RGB on a colour panel, the low byte as
\* brightness on a white-only one
LedRGB(color, is_color) ==
    IF is_color THEN UnpackRGB(color) ELSE LedColor(color)

\* the same calls with the glow at "a channel is 50 or more" and drawn after
\* the disc
LedCellOpsAbove(color, is_color, glow, led_radius) ==
    LET c == LedRGB(color, is_color)
        avg == (c[1] + c[2] + c[3]) \div 3
        glowop == [op |-> "glow", rgb |-> c, radius |-> (led_radius + 2) * 2,
                   alpha |-> IF avg < 150 THEN avg ELSE 150]
        disc == [op |-> "disc", rgb |-> c, radius |-> led_radius, alpha |-> 255]
        outline == [op |-> "outline", rgb |-> <<40, 40, 45>>, radius |-> led_radius,
                    alpha |-> 255]
    IN <<disc>>
           \o (IF glow /\ (c[1] >= 50 \/ c[2] >= 50 \/ c[3] >= 50) THEN <<glowop>> ELSE <<>>)
           \o <<outline>>

\* the drawing calls for one cell: the glow (a circle of radius
\* glow_radius * 2, glow_radius = _led_radius + 2, alpha min(150, (r+g+b)//3),
\* blitted on the window) when enabled and a channel is above 50; the disc;
\* the outline
LedCellOps(color, is_color, glow, led_radius) ==
    LET c == LedRGB(color, is_color)
        avg == (c[1] + c[2] + c[3]) \div 3
        glowop == [op |-> "glow", rgb |-> c, radius |-> (led_radius + 2) * 2,
                   alpha |-> IF avg < 150 THEN avg ELSE 150]
        disc == [op |-> "disc", rgb |-> c, radius |-> led_radius, alpha |-> 255]
        outline == [op |-> "outline", rgb |-> <<40, 40, 45>>, radius |-> led_radius,
                    alpha |-> 255]
    IN (IF glow /\ (c[1] > 50 \/ c[2] > 50 \/ c[3] > 50) THEN <<glowop>> ELSE <<>>)
           \o <<disc, outline>>

\* buffer values drawn: brightness and colours at, around and far from the
\* glow threshold and the alpha limit
LedPixels ==
    {0, 50, 51, 149, 150, 151, 200, 255, PackRGB(50, 50, 50), PackRGB(51, 0, 0),
     PackRGB(0, 50, 51), PackRGB(255, 255, 255), PackRGB(150, 150, 150),
     PackRGB(151, 152, 153), PackRGB(255, 0, 0)}

\* _led_radius: 4 from the constructor, max(2, display_scale // 2 - 1) from init()
LedRadii == {2, 4, 7}

InitGlow == InitRenderer("led") /\ InitRun("Blinky2350Device")

\* one cell drawn, under either setting of set_glow() and is_color
CallDrawLed ==
    /\ call = NoCall
    /\ \E color \in LedPixels, ic \in BOOLEAN, glow \in BOOLEAN, lr \in LedRadii :
          call' = [fn |-> "draw_led", color |-> color, x |-> lr, y |-> 0, is_color |-> ic,
                   dither |-> glow, palette |-> <<>>, rgb |-> LedRGB(color, ic),
                   out |-> LedCellOps(color, ic, glow, lr)]
    /\ UNCHANGED tvars

NextGlow ==
    \/ CallDrawLed
    \/ CallDone

SpecGlow == InitGlow /\ [][NextGlow]_vars

ProfileButtons(d) ==
    IF d \in {"Tufty2350Device", "Blinky2350Device"}
    THEN <<[name |-> "A", key |-> "a", pin |-> 7], [name |-> "B", key |-> "s", pin |-> 8],
           [name |-> "C", key |-> "d", pin |-> 9], [name |-> "UP", key |-> "up", pin |-> 22],
           [name |-> "DOWN", key |-> "down", pin |-> 6]>>
    ELSE IF d = "Badger2350Device"
    THEN <<[name |-> "A", key |-> "a", pin |-> 12], [name |-> "B", key |-> "s", pin |-> 13],
           [name |-> "C", key |-> "d", pin |-> 14], [name |-> "UP", key |-> "up", pin |-> 15],
           [name |-> "DOWN", key |-> "down", pin |-> 11]>>
    ELSE IF d \in {"InkyFrame73Device", "InkyFrame58Device", "InkyFrame40Device"}
    THEN <<[name |-> "A", key |-> "a", pin |-> 0], [name |-> "B", key |-> "s", pin |-> 1],
           [name |-> "C", key |-> "d", pin |-> 2], [name |-> "D", key |-> "f", pin |-> 3],
           [name |-> "E", key |-> "g", pin |-> 4]>>
    ELSE <<>>

\* the pins of inky_frame.button_a .. button_e, made when the module is imported
InkyFramePins == <<0, 1, 2, 3, 4>>

\* str.lower() on the button names and keys in use
Lower(str) ==
    CASE str = "A" -> "a"
      [] str = "B" -> "b"
      [] str = "C" -> "c"
      [] str = "D" -> "d"
      [] str = "E" -> "e"
      [] str = "UP" -> "up"
      [] str = "DOWN" -> "down"
      [] OTHER -> str

\* device.get_button_by_key(key): index of the first button with that key, 0
\* for None
GetButtonByKey(d, key) ==
    LET bs == ProfileButtons(d)
        hits == {i \in DOMAIN bs : Lower(bs[i].key) = Lower(key)}
    IN IF hits = {} THEN 0 ELSE CHOOSE i \in hits : \A j \in hits : i <= j

\* index of the button of that name, 0 for none
ButtonByName(d, name) ==
    LET bs == ProfileButtons(d)
        hits == {i \in DOMAIN bs : bs[i].name = name}
    IN IF hits = {} THEN 0 ELSE CHOOSE i \in hits : \A j \in hits : i <= j

\* Button(pin): a new object, released, which takes the pin's place in
\* state["buttons"]; made for pins[i], pins[i + 1], ... in turn.  st is
\* [objs, reg].
RECURSIVE MakeButtons(_, _, _, _)
MakeButtons(st, cls, pins, i) ==
    IF i > Len(pins) THEN st
    ELSE MakeButtons([objs |-> Append(st.objs, [cls |-> cls, pin |-> pins[i], pressed |-> FALSE]),
                      reg |-> [st.reg EXCEPT ![pins[i]] = Len(st.objs) + 1]],
                     cls, pins, i + 1)

\* the pins of the profile's buttons, in order
ProfilePins(d) == [i \in DOMAIN ProfileButtons(d) |-> ProfileButtons(d)[i].pin]

\* _press_button(pin) / _release_button(pin): btn = state["buttons"].get(pin);
\* "if btn:" btn._press() / btn._release() (the registry holds pimoroni
\* Buttons on every profile pin once the ButtonManager is made)
SetPressed(objs, reg, pin, v) ==
    IF reg[pin] = 0 THEN objs
    ELSE [objs EXCEPT ![reg[pin]].pressed = v]

\* handle_key_down(key): nothing if the key is in _pressed_keys; else it is
\* added and the button it maps to, if any, is pressed
HandleKeyDown(key) ==
    LET k == Lower(key)
        b == GetButtonByKey(device, k)
    IN IF k \in pressed_keys
       THEN UNCHANGED <<pressed_keys, bobjs>>
       ELSE /\ pressed_keys' = pressed_keys \cup {k}
            /\ bobjs' = IF b = 0 THEN bobjs
                        ELSE SetPressed(bobjs, buttons, ProfileButtons(device)[b].pin, TRUE)

\* handle_key_up(key): nothing if the key is not in _pressed_keys; else it is
\* discarded and the button it maps to, if any, is released
HandleKeyUp(key) ==
    LET k == Lower(key)
        b == GetButtonByKey(device, k)
    IN IF k \notin pressed_keys
       THEN UNCHANGED <<pressed_keys, bobjs>>
       ELSE /\ pressed_keys' = pressed_keys \ {k}
            /\ bobjs' = IF b = 0 THEN bobjs
                        ELSE SetPressed(bobjs, buttons, ProfileButtons(device)[b].pin, FALSE)

\* every variable of the renderers and of the run
nvars == <<pvars, evars, svars, apc, mpc, window, device, headless, running, result, call>>

\* ---------------------------------------------- buttons, interactive run
\* keys held down at once
MaxHeld == 2

\* the profiles of the runs: one whose applications make pimoroni Buttons,
\* one whose applications may read inky_frame.button_a..e instead
InputDevices == {"Tufty2350Device", "InkyFrame73Device"}

\* keys of the key and mouse events: the keys of the profile and one that no
\* button has
EventKeys(d) == {ProfileButtons(d)[i].key : i \in DOMAIN ProfileButtons(d)} \cup {"x"}

InitKeys == \E d \in InputDevices : InitRenderer(CreateDisplay(d)) /\ InitRun(d)

\* main(): install_mocks() imports emulator.mocks.inky_frame, which makes
\* button_a .. button_e on pins 0..4
InstallMocks ==
    /\ ipc = "boot"
    /\ LET st == MakeButtons([objs |-> bobjs, reg |-> buttons], "inky_frame", InkyFramePins, 1)
       IN bobjs' = st.objs /\ buttons' = st.reg
    /\ ipc' = "mocks"
    /\ UNCHANGED <<nvars, app_uses, pressed_keys, held, hop, gframes, hpc, start_frame,
                   start_time, tclock, abpc, bg_color>>

\* main(): ButtonManager(device): Button(btn_config.pin) for each button of
\* the profile
ManagerInit ==
    /\ ipc = "mocks"
    /\ LET st == MakeButtons([objs |-> bobjs, reg |-> buttons], "pimoroni", ProfilePins(device), 1)
       IN bobjs' = st.objs /\ buttons' = st.reg
    /\ ipc' = "manager"
    /\ UNCHANGED <<nvars, app_uses, pressed_keys, held, hop, gframes, hpc, start_frame,
                   start_time, tclock, abpc, bg_color>>

\* the application script makes its buttons: pimoroni.Button(pin) for each
\* pin of the profile (as hello_badge.py does)
AppMakesButtons ==
    /\ ipc = "manager"
    /\ LET st == MakeButtons([objs |-> bobjs, reg |-> buttons], "pimoroni", ProfilePins(device), 1)
       IN /\ bobjs' = st.objs
          /\ buttons' = st.reg
          /\ app_uses' = [p \in AllPins |->
                            IF \E i \in DOMAIN ProfilePins(device) : ProfilePins(device)[i] = p
                            THEN st.reg[p] ELSE 0]
    /\ ipc' = "app"
    /\ UNCHANGED <<nvars, pressed_keys, held, hop, gframes, hpc, start_frame,
                   start_time, tclock, abpc, bg_color>>

\* the application script does "from inky_frame import button_a, ...": the
\* module is in sys.modules already, the objects are those install_mocks made
AppImportsInkyButtons ==
    /\ ipc = "manager"
    /\ ProfilePins(device) = InkyFramePins
    /\ app_uses' = [p \in AllPins |->
                      IF \E i \in DOMAIN InkyFramePins : InkyFramePins[i] = p
                      THEN CHOOSE i \in DOMAIN bobjs : bobjs[i].cls = "inky_frame" /\ bobjs[i].pin = p
                      ELSE 0]
    /\ ipc' = "app"
    /\ UNCHANGED <<nvars, bobjs, buttons, pressed_keys, held, hop, gframes, hpc, start_frame,
                   start_time, tclock, abpc, bg_color>>

\* run_app_interactive(): KEYDOWN, or MOUSEBUTTONDOWN on a button indicator:
\* button_manager.handle_key_down(key)
KeyDown ==
    /\ ipc \in {"manager", "app"}
    /\ Cardinality(held) < MaxHeld
    /\ \E k \in EventKeys(device) \ held :
          /\ held' = held \cup {k}
          /\ HandleKeyDown(k)
    /\ UNCHANGED <<nvars, buttons, app_uses, ipc, hop, gframes, hpc, start_frame,
                   start_time, tclock, abpc, bg_color>>

\* run_app_interactive(): KEYUP, or MOUSEBUTTONUP: handle_key_up(key)
KeyUp ==
    /\ ipc \in {"manager", "app"}
    /\ \E k \in held :
          /\ held' = held \ {k}
          /\ HandleKeyUp(k)
    /\ UNCHANGED <<nvars, buttons, app_uses, ipc, hop, gframes, hpc, start_frame,
                   start_time, tclock, abpc, bg_color>>

NextKeys ==
    \/ InstallMocks
    \/ ManagerInit
    \/ AppMakesButtons
    \/ AppImportsInkyButtons
    \/ KeyDown
    \/ KeyUp

SpecKeys == InitKeys /\ [][NextKeys]_vars

\* C28: for every pin of the profile, the button object the application reads
\* reports pressed exactly while the key mapped to it is held, whether the
\* object was made before the ButtonManager (inky_frame.button_a..e), after
\* it (pimoroni.Button of the application), or while the key was held.
C28_ButtonFollowsKey ==
    ipc = "app" =>
        \A i \in DOMAIN ProfileButtons(device) :
            LET b == ProfileButtons(device)[i]
            IN app_uses[b.pin] # 0 =>
                  (bobjs[app_uses[b.pin]].pressed <=> b.key \in held)

\* ------------------------------------------ test harness (TestTuftyBadge)
\* Time is counted in units of 0.1 s, the sleep of the badge's main loop.
\* run_frames(count, timeout=5.0)
RunTimeout == 50
\* run_frames(5) of the tests
RunCount == 5
\* the clock stops here: one unit of start-up, a timeout and its overrun
MaxClock == RunTimeout + 3
\* press_button / release_button / click_button calls of one test, before
\* its run_frames
MaxButtonCalls == 2

\* the names the harness documents: "Press a button by name (A, B, C, UP, DOWN)"
HarnessNames == {"A", "B", "C", "UP", "DOWN"}

\* column 0 of the badge: the white header bar in the first row, the
\* background below it
BadgeBuffer(bg) == [c \in Cells |-> IF c = 1 THEN WHITE ELSE bg]

\* the test class: device = "tufty", headless
InitHarness == InitBoot /\ device = "Tufty2350Device"

\* what the harness and the badge leave alone in the renderer and the run
xvars == <<pvars, evars, display_surface, ai, drawn, apc, mpc, window, device, headless,
           running, result, call>>

\* setUpClass(): install_mocks(); create_display(headless=True); init();
\* ButtonManager(device)
SetUpClass ==
    /\ hpc = "class"
    /\ kind' = CreateDisplay(device)
    /\ LET st1 == MakeButtons([objs |-> bobjs, reg |-> buttons], "inky_frame", InkyFramePins, 1)
           st2 == MakeButtons(st1, "pimoroni", ProfilePins(device), 1)
       IN bobjs' = st2.objs /\ buttons' = st2.reg
    /\ ipc' = "manager"
    /\ hpc' = "setup"
    /\ UNCHANGED <<xvars, heap, last_buffer, frame_count, passed, app_uses, pressed_keys,
                   held, hop, gframes, start_frame, start_time, tclock, abpc, bg_color>>

\* setUp(): state["frame_count"] = 0; _start_app() starts the thread and
\* sleeps 0.1 s
SetUp ==
    /\ hpc = "setup"
    /\ gframes' = 0
    /\ abpc' = "init"
    /\ hpc' = "starting"
    /\ UNCHANGED <<xvars, kind, heap, last_buffer, frame_count, passed, bobjs, buttons,
                   app_uses, pressed_keys, held, ipc, hop, start_frame, start_time, tclock,
                   bg_color>>

\* display.update() of draw_badge(): the buffer drawn with bg, then
\* display.render(buffer) headless (_last_buffer, _frame_count) and
\* state["frame_count"] += 1, once for each colour in bgs in turn
RECURSIVE DrawBadges(_, _)
DrawBadges(st, bgs) ==
    IF bgs = <<>> THEN st
    ELSE DrawBadges([bg |-> Head(bgs), frames |-> st.frames + 1, count |-> st.count + 1],
                    Tail(bgs))

\* hello_badge.py up to the main loop: the five Buttons, bg_color = BLUE,
\* draw_badge()
AppInit ==
    /\ abpc = "init"
    /\ LET st == MakeButtons([objs |-> bobjs, reg |-> buttons], "pimoroni", ProfilePins(device), 1)
       IN /\ bobjs' = st.objs
          /\ buttons' = st.reg
          /\ app_uses' = [p \in AllPins |->
                            IF \E i \in DOMAIN ProfilePins(device) : ProfilePins(device)[i] = p
                            THEN st.reg[p] ELSE 0]
    /\ ipc' = "app"
    /\ LET d == DrawBadges([bg |-> bg_color, frames |-> gframes, count |-> frame_count], <<BLUE>>)
       IN /\ bg_color' = d.bg
          /\ gframes' = d.frames
          /\ frame_count' = d.count
          /\ heap' = [heap EXCEPT ![BUF].px = BadgeBuffer(d.bg)]
          /\ passed' = BadgeBuffer(d.bg)
    /\ last_buffer' = BUF
    /\ abpc' = "sleep"
    /\ UNCHANGED <<xvars, kind, pressed_keys, held, hop, hpc, start_frame, start_time, tclock>>

\* is_pressed() of the application's button of that name
AppButtonPressed(name) ==
    LET b == ProfileButtons(device)[ButtonByName(device, name)]
    IN bobjs[app_uses[b.pin]].pressed

\* one pass of "while True": A -> RED and draw, B -> GREEN and draw,
\* C -> BLUE and draw; then time.sleep(0.1)
AppLoop ==
    /\ abpc = "check"
    /\ LET bgs == (IF AppButtonPressed("A") THEN <<RED>> ELSE <<>>)
                  \o (IF AppButtonPressed("B") THEN <<GREEN>> ELSE <<>>)
                  \o (IF AppButtonPressed("C") THEN <<BLUE>> ELSE <<>>)
           d == DrawBadges([bg |-> bg_color, frames |-> gframes, count |-> frame_count], bgs)
       IN /\ bg_color' = d.bg
          /\ gframes' = d.frames
          /\ frame_count' = d.count
          /\ IF bgs = <<>>
             THEN UNCHANGED <<heap, passed, last_buffer>>
             ELSE /\ heap' = [heap EXCEPT ![BUF].px = BadgeBuffer(d.bg)]
                  /\ passed' = BadgeBuffer(d.bg)
                  /\ last_buffer' = BUF
    /\ abpc' = "sleep"
    /\ UNCHANGED <<xvars, kind, bobjs, buttons, app_uses, pressed_keys, held, ipc, hop, hpc,
                   start_frame, start_time, tclock>>

\* 0.1 s pass while the harness sleeps and the badge, which is never kept
\* from running, sleeps too: the 0.1 s of _start_app or of click_button, or
\* ten polls of run_frames that found too few frames and no timeout
TimePasses ==
    /\ \/ hpc = "starting"
       \/ hpc = "clicking" /\ tclock = start_time
       \/ /\ hpc = "waiting"
          /\ gframes < start_frame + RunCount
          /\ tclock - start_time <= RunTimeout
    /\ abpc = "sleep"
    /\ tclock < MaxClock
    /\ tclock' = tclock + 1
    /\ abpc' = "check"
    /\ hpc' = IF hpc = "starting" THEN "idle" ELSE hpc
    /\ UNCHANGED <<nvars, bobjs, buttons, app_uses, pressed_keys, held, ipc, hop, gframes,
                   start_frame, start_time, bg_color>>

\* press_button(name): handle_key_down(name.lower())
HarnessPress ==
    /\ hpc = "idle"
    /\ hop.n < MaxButtonCalls
    /\ \E name \in HarnessNames \ held :
          /\ held' = held \cup {name}
          /\ hop' = [op |-> "press", name |-> name, n |-> hop.n + 1]
          /\ HandleKeyDown(Lower(name))
    /\ UNCHANGED <<nvars, buttons, app_uses, ipc, gframes, hpc, start_frame, start_time,
                   tclock, abpc, bg_color>>

\* release_button(name): handle_key_up(name.lower())
HarnessRelease ==
    /\ hpc = "idle"
    /\ hop.n < MaxButtonCalls
    /\ \E name \in held :
          /\ held' = held \ {name}
          /\ hop' = [op |-> "release", name |-> name, n |-> hop.n + 1]
          /\ HandleKeyUp(Lower(name))
    /\ UNCHANGED <<nvars, buttons, app_uses, ipc, gframes, hpc, start_frame, start_time,
                   tclock, abpc, bg_color>>

\* click_button(name): press_button(name), then time.sleep(0.1)
ClickPress ==
    /\ hpc = "idle"
    /\ hop.n < MaxButtonCalls
    /\ \E name \in HarnessNames \ held :
          /\ held' = held \cup {name}
          /\ hop' = [op |-> "clicking", name |-> name, n |-> hop.n + 1]
          /\ HandleKeyDown(Lower(name))
    /\ start_time' = tclock
    /\ hpc' = "clicking"
    /\ UNCHANGED <<nvars, buttons, app_uses, ipc, gframes, start_frame, tclock, abpc,
                   bg_color>>

\* click_button(name): the sleep is over: release_button(name)
ClickRelease ==
    /\ hpc = "clicking"
    /\ tclock > start_time
    /\ held' = held \ {hop.name}
    /\ hop' = [op |-> "click", name |-> hop.name, n |-> hop.n]
    /\ HandleKeyUp(Lower(hop.name))
    /\ start_time' = 0
    /\ hpc' = "idle"
    /\ UNCHANGED <<nvars, buttons, app_uses, ipc, gframes, start_frame, tclock, abpc,
                   bg_color>>

\* run_frames(5): start_frame, target_frame, start_time are taken
RunFramesStart ==
    /\ hpc = "idle"
    /\ start_frame' = gframes
    /\ start_time' = tclock
    /\ hpc' = "waiting"
    /\ UNCHANGED <<nvars, bobjs, buttons, app_uses, pressed_keys, held, ipc, hop, gframes,
                   tclock, abpc, bg_color>>

\* run_frames(): "while frame_count < target_frame" is left: it returns
\* (the run followed ends with the first run_frames of the test)
RunFramesReturn ==
    /\ hpc = "waiting"
    /\ gframes >= start_frame + RunCount
    /\ hpc' = "returned"
    /\ UNCHANGED <<nvars, bobjs, buttons, app_uses, pressed_keys, held, ipc, hop, gframes,
                   start_frame, start_time, tclock, abpc, bg_color>>

\* run_frames(): "if time.time() - start_time > timeout: self.fail(...)"
RunFramesFail ==
    /\ hpc = "waiting"
    /\ gframes < start_frame + RunCount
    /\ tclock - start_time > RunTimeout
    /\ hpc' = "failed"
    /\ UNCHANGED <<nvars, bobjs, buttons, app_uses, pressed_keys, held, ipc, hop, gframes,
                   start_frame, start_time, tclock, abpc, bg_color>>

NextHarness ==
    \/ SetUpClass
    \/ SetUp
    \/ AppInit
    \/ AppLoop
    \/ TimePasses
    \/ HarnessPress
    \/ HarnessRelease
    \/ ClickPress
    \/ ClickRelease
    \/ RunFramesStart
    \/ RunFramesReturn
    \/ RunFramesFail

SpecHarness == InitHarness /\ [][NextHarness]_vars

\* C24: on Tufty, for every button name the device declares (A, B, C, UP,
\* DOWN), press_button(name) makes the application's button object of that
\* name report pressed, release_button(name) makes it report released, and
\* click_button(name) leaves it released.
C24_HarnessButtons ==
    [][(hop' # hop /\ ipc = "app") =>
          LET b == ProfileButtons(device)[ButtonByName(device, hop'.name)]
          IN bobjs'[app_uses[b.pin]].pressed = (hop'.op \in {"press", "clicking"})]_vars

\* C25: with the badge started by the harness and no button pressed, the
\* frame counter rises by at least 5 after start-up, so that run_frames(5)
\* returns and does not fail with a timeout.
C25_RunFramesReturns ==
    hpc = "failed" => hop # NoHop

====
